---- MODULE Spec2Model ----
(***************************************************************************)
(* Spatiotemporal indexing core of Leviathan WebXR: SpatialGrid,           *)
(* TimeChunker (the temporal index), DensityAggregator and the renderer's  *)
(* confidence derivation.                                                  *)
(*                                                                         *)
(* Numbers are fixed-point integers.  A position coordinate is a multiple  *)
(* of 0.05 world units (so the grid's cell size 0.5 is 10, the aggregator's*)
(* cell sizes 0.05 and 0.2 are 1 and 4).  A normalized time in [0,1] is    *)
(* k / TimeScale.  Quotients the code keeps as floats (centroids, mean     *)
(* times) are kept as exact fractions [n, d]; comparisons cross-multiply.  *)
(* A processedData object (parallel arrays of one length) is a function    *)
(* from 0..count-1 to point records.                                       *)
(***************************************************************************)
EXTENDS Integers, Sequences, FiniteSets, TLC

VARIABLES
  grid,          \* the SpatialGrid instance
  gridBuilds,    \* how many times build was called on it
  gridInput,     \* the point set last handed to build
  sphereResult,  \* the last querySphere call: its arguments and what it returned
  chunker,       \* the TimeChunker instance
  rangeResult,   \* the last getVisibleRange call
  aggregator,    \* the DensityAggregator instance
  lodInput,      \* the point set last handed to process
  renderer,      \* the WhaleInstanceRenderer's instance buffers
  renderLoad,    \* the last loadData call
  chunksResult,  \* the last getOverlappingChunks call
  levelResult,   \* the last getLevelForDistance call
  held,          \* the query result a caller keeps, and what it wrote into it
  app,           \* LeviathanApp: what _loadData selected and whether it reported an error
  hands,         \* the HandTracker's cached left and right hand
  recognizer,    \* the GestureRecognizer: its state and the reset hold time
  inspect,       \* the InspectGesture handler
  clock,         \* performance.now(), in milliseconds
  inspectCalls   \* the querySphere calls of the pinch being held: how many frames and calls, and when the last was

\* ------------------------------------------------------------------ bounds

\* resolution of the normalized time axis: time k stands for k / TimeScale
TimeScale == 8
\* longest point set handed to SpatialGrid.build
MaxGridPoints == 2
\* number of SpatialGrid.build calls on one grid instance
MaxBuilds == 2
\* longest point set handed to TimeChunker.build
MaxTimePoints == 3
\* longest point set handed to DensityAggregator.process
MaxLodPoints == 2

\* ----------------------------------------------------------------- helpers

Min2(a, b) == IF a <= b THEN a ELSE b
Max2(a, b) == IF a >= b THEN a ELSE b

\* Math.floor(a / b) and Math.ceil(a / b) for b > 0
FloorDiv(a, b) == a \div b
CeilDiv(a, b) == -((-a) \div b)

RECURSIVE Gcd(_, _)
Gcd(a, b) == IF b = 0 THEN a ELSE Gcd(b, a % b)

\* a JS number that may be NaN or a deleted (undefined) field
Num(v) == [k |-> "num", v |-> v]
NaN == [k |-> "nan", v |-> 0]
Undefined == [k |-> "undefined", v |-> 0]
\* a += x
JsAdd(a, x) == IF a.k = "num" THEN Num(a.v + x) ELSE NaN
\* a / c as a fraction in lowest terms (c > 0); undefined / c and NaN / c are NaN
Frac(n, d) == LET g == Gcd(IF n < 0 THEN -n ELSE n, d) IN [k |-> "num", n |-> n \div g, d |-> d \div g]
FracNaN == [k |-> "nan", n |-> 0, d |-> 1]
JsDiv(a, c) == IF a.k = "num" THEN Frac(a.v, c) ELSE FracNaN
\* Math.min / Math.max on fractions (NaN never reaches them: see QuerySphere)
FracLeq(a, b) == a.n * b.d <= b.n * a.d
FracMin(a, b) == IF FracLeq(a, b) THEN a ELSE b
FracMax(a, b) == IF FracLeq(a, b) THEN b ELSE a

\* the arrays 0..n-1 -> S of length at most n
Arrays(S, n) == UNION {[0..(k - 1) -> S] : k \in 0..n}
Count(data) == Cardinality(DOMAIN data)

RECURSIVE SumOver(_, _)
SumOver(f, S) == IF S = {} THEN 0 ELSE LET x == CHOOSE x \in S : TRUE IN f[x] + SumOver(f, S \ {x})

SpeciesBins == 0..7
TimeBins == 0..9
ZeroSpecies == [s \in SpeciesBins |-> 0]
ZeroTimes == [t \in TimeBins |-> 0]

\* histogram[i]++ on a typed array: a write outside the array is dropped
Bump(h, i) == IF i \in DOMAIN h THEN [h EXCEPT ![i] = @ + 1] ELSE h

\* ------------------------------------------------------------- SpatialGrid

\* 1.0 world unit, the cell size 0.5 and the padding cellSize * 0.5
WorldUnit == 20
CellSize == 10
Pad == CellSize \div 2

NewGrid ==
  [cellSize |-> CellSize, gridMin |-> <<0, 0, 0>>, gridMax |-> <<0, 0, 0>>,
   gridDims |-> <<0, 0, 0>>, cells |-> <<>>, totalCells |-> 0,
   populatedCells |-> 0, totalPoints |-> 0, built |-> FALSE]

MinOf(S) == CHOOSE x \in S : \A y \in S : x <= y
MaxOf(S) == CHOOSE x \in S : \A y \in S : x >= y

ComputeBounds(data) ==
  IF Count(data) = 0
  THEN [gridMin |-> <<0, 0, 0>>, gridMax |-> <<WorldUnit, WorldUnit, WorldUnit>>]
  ELSE [gridMin |-> [a \in 1..3 |-> MinOf({data[i].pos[a] : i \in DOMAIN data}) - Pad],
        gridMax |-> [a \in 1..3 |-> MaxOf({data[i].pos[a] : i \in DOMAIN data}) + Pad]]

\* a variant that measures the extent of the data without the padding and
\* does not clamp to 1
ComputeGridDimensionsUnpadded(b) ==
  [a \in 1..3 |-> CeilDiv(b.gridMax[a] - b.gridMin[a] - 2 * Pad, CellSize)]

ComputeGridDimensions(b) ==
  [a \in 1..3 |-> Max2(1, CeilDiv(b.gridMax[a] - b.gridMin[a], CellSize))]

CreateCell(gridMin, key) ==
  [cx |-> key[1], cy |-> key[2], cz |-> key[3],
   min |-> [a \in 1..3 |-> gridMin[a] + key[a] * CellSize],
   max |-> [a \in 1..3 |-> gridMin[a] + (key[a] + 1) * CellSize],
   count |-> 0, speciesHistogram |-> ZeroSpecies, timeHistogram |-> ZeroTimes,
   sumX |-> Num(0), sumY |-> Num(0), sumZ |-> Num(0), sumTime |-> Num(0),
   centroid |-> <<FracNaN, FracNaN, FracNaN>>, hasCentroid |-> FALSE,
   avgTime |-> Frac(0, 1), dominantSpecies |-> 0]

CellKey(gridMin, gridDims, p) ==
  [a \in 1..3 |-> Max2(0, Min2(gridDims[a] - 1, FloorDiv(p.pos[a] - gridMin[a], CellSize)))]

\* a variant that stores a new cell at every insertion
InsertPointFresh(cells, gridMin, gridDims, p) ==
  LET key == CellKey(gridMin, gridDims, p)
      cell == CreateCell(gridMin, key)
      upd == [cell EXCEPT !.count = @ + 1,
                          !.speciesHistogram = Bump(@, p.species),
                          !.timeHistogram = Bump(@, Min2(9, FloorDiv(p.time * 10, TimeScale))),
                          !.sumX = JsAdd(@, p.pos[1]),
                          !.sumY = JsAdd(@, p.pos[2]),
                          !.sumZ = JsAdd(@, p.pos[3]),
                          !.sumTime = JsAdd(@, p.time)]
  IN  [k \in (DOMAIN cells) \cup {key} |-> IF k = key THEN upd ELSE cells[k]]

\* a variant whose time bucket is Math.floor(time * 10) without the clamp
InsertPointUnclamped(cells, gridMin, gridDims, p) ==
  LET key == CellKey(gridMin, gridDims, p)
      cell == IF key \in DOMAIN cells THEN cells[key] ELSE CreateCell(gridMin, key)
      upd == [cell EXCEPT !.count = @ + 1,
                          !.speciesHistogram = Bump(@, p.species),
                          !.timeHistogram = Bump(@, FloorDiv(p.time * 10, TimeScale)),
                          !.sumX = JsAdd(@, p.pos[1]),
                          !.sumY = JsAdd(@, p.pos[2]),
                          !.sumZ = JsAdd(@, p.pos[3]),
                          !.sumTime = JsAdd(@, p.time)]
  IN  [k \in (DOMAIN cells) \cup {key} |-> IF k = key THEN upd ELSE cells[k]]

InsertPoint(cells, gridMin, gridDims, p) ==
  LET key == CellKey(gridMin, gridDims, p)
      cell == IF key \in DOMAIN cells THEN cells[key] ELSE CreateCell(gridMin, key)
      upd == [cell EXCEPT !.count = @ + 1,
                          !.speciesHistogram = Bump(@, p.species),
                          !.timeHistogram = Bump(@, Min2(9, FloorDiv(p.time * 10, TimeScale))),
                          !.sumX = JsAdd(@, p.pos[1]),
                          !.sumY = JsAdd(@, p.pos[2]),
                          !.sumZ = JsAdd(@, p.pos[3]),
                          !.sumTime = JsAdd(@, p.time)]
  IN  [k \in (DOMAIN cells) \cup {key} |-> IF k = key THEN upd ELSE cells[k]]

RECURSIVE InsertPoints(_, _, _, _, _)
InsertPoints(cells, gridMin, gridDims, data, i) ==
  IF i >= Count(data) THEN cells
  ELSE InsertPoints(InsertPoint(cells, gridMin, gridDims, data[i]), gridMin, gridDims, data, i + 1)

\* a variant in which a later bin of equal count replaces the earlier one
RECURSIVE DominantScanLast(_, _, _, _)
DominantScanLast(h, s, maxCount, dominant) ==
  IF s > 7 THEN dominant
  ELSE IF h[s] >= maxCount THEN DominantScanLast(h, s + 1, h[s], s)
  ELSE DominantScanLast(h, s + 1, maxCount, dominant)

\* the first bin holding the largest count; 0 for an all-zero histogram
RECURSIVE DominantScan(_, _, _, _)
DominantScan(h, s, maxCount, dominant) ==
  IF s > 7 THEN dominant
  ELSE IF h[s] > maxCount THEN DominantScan(h, s + 1, h[s], s)
  ELSE DominantScan(h, s + 1, maxCount, dominant)

FindDominantSpecies(h) == DominantScan(h, 0, 0, 0)

FinalizeCell(cell) ==
  IF cell.count = 0 THEN cell
  ELSE [cell EXCEPT !.centroid = <<JsDiv(cell.sumX, cell.count), JsDiv(cell.sumY, cell.count),
                                   JsDiv(cell.sumZ, cell.count)>>,
                    !.hasCentroid = TRUE,
                    !.avgTime = JsDiv(cell.sumTime, cell.count),
                    !.dominantSpecies = DominantScan(cell.speciesHistogram, 0, 0, @),
                    !.sumX = Undefined, !.sumY = Undefined, !.sumZ = Undefined,
                    !.sumTime = Undefined]

FinalizeCells(cells) == [k \in DOMAIN cells |-> FinalizeCell(cells[k])]

PopulatedCells(cells) == Cardinality({k \in DOMAIN cells : cells[k].count # 0})

BuildGrid(g, data) ==
  LET b == ComputeBounds(data)
      dims == ComputeGridDimensions(b)
      cells == FinalizeCells(InsertPoints(g.cells, b.gridMin, dims, data, 0))
  IN  [g EXCEPT !.gridMin = b.gridMin, !.gridMax = b.gridMax, !.gridDims = dims,
                !.totalCells = dims[1] * dims[2] * dims[3],
                !.cells = cells,
                !.populatedCells = PopulatedCells(cells),
                !.built = TRUE,
                !.totalPoints = Count(data)]

\* a variant that returns the untouched minTime / maxTime as the time span
EmptyResultRawSpan ==
  [totalCount |-> 0, speciesHistogram |-> ZeroSpecies, timeHistogram |-> ZeroTimes,
   cellsQueried |-> 0, dominantSpecies |-> 0, timeSpan |-> <<Frac(TimeScale, 1), Frac(0, 1)>>]

EmptyResult ==
  [totalCount |-> 0, speciesHistogram |-> ZeroSpecies, timeHistogram |-> ZeroTimes,
   cellsQueried |-> 0, dominantSpecies |-> 0, timeSpan |-> <<Frac(0, 1), Frac(0, 1)>>]

\* a variant whose distance test is reversed: distSq >= radiusSq
WithinRadiusOutside(cell, center, radius) ==
  /\ cell.hasCentroid
  /\ \A a \in 1..3 : cell.centroid[a].k = "num"
  /\ LET dx == [a \in 1..3 |-> cell.centroid[a].n * (cell.count \div cell.centroid[a].d)
                               - center[a] * cell.count]
     IN  dx[1] * dx[1] + dx[2] * dx[2] + dx[3] * dx[3]
           >= radius * radius * cell.count * cell.count

\* distSq <= radiusSq for a cell's centroid, both sides multiplied by count^2
\* (a centroid fraction is sum/count in lowest terms); false for a NaN centroid
WithinRadius(cell, center, radius) ==
  /\ cell.hasCentroid
  /\ \A a \in 1..3 : cell.centroid[a].k = "num"
  /\ LET dx == [a \in 1..3 |-> cell.centroid[a].n * (cell.count \div cell.centroid[a].d)
                               - center[a] * cell.count]
     IN  dx[1] * dx[1] + dx[2] * dx[2] + dx[3] * dx[3]
           <= radius * radius * cell.count * cell.count

\* a variant whose loops visit only the cell that holds the centre
QueryRangeCenterCell(g, center, radius) ==
  {key \in (Max2(0, FloorDiv(center[1] - g.gridMin[1], CellSize))
              .. Min2(g.gridDims[1] - 1, FloorDiv(center[1] - g.gridMin[1], CellSize)))
         \X (Max2(0, FloorDiv(center[2] - g.gridMin[2], CellSize))
              .. Min2(g.gridDims[2] - 1, FloorDiv(center[2] - g.gridMin[2], CellSize)))
         \X (Max2(0, FloorDiv(center[3] - g.gridMin[3], CellSize))
              .. Min2(g.gridDims[3] - 1, FloorDiv(center[3] - g.gridMin[3], CellSize))) : TRUE}

\* the keys the three nested loops visit
QueryRange(g, center, radius) ==
  {key \in (Max2(0, FloorDiv(center[1] - radius - g.gridMin[1], CellSize))
              .. Min2(g.gridDims[1] - 1, CeilDiv(center[1] + radius - g.gridMin[1], CellSize)))
         \X (Max2(0, FloorDiv(center[2] - radius - g.gridMin[2], CellSize))
              .. Min2(g.gridDims[2] - 1, CeilDiv(center[2] + radius - g.gridMin[2], CellSize)))
         \X (Max2(0, FloorDiv(center[3] - radius - g.gridMin[3], CellSize))
              .. Min2(g.gridDims[3] - 1, CeilDiv(center[3] + radius - g.gridMin[3], CellSize))) : TRUE}

IncludedCells(g, center, radius) ==
  {key \in QueryRange(g, center, radius) :
     /\ key \in DOMAIN g.cells
     /\ g.cells[key].count # 0
     /\ WithinRadius(g.cells[key], center, radius)}

RECURSIVE FoldTime(_, _, _, _)
FoldTime(cells, S, acc, useMin) ==
  IF S = {} THEN acc
  ELSE LET k == CHOOSE k \in S : TRUE
       IN  FoldTime(cells, S \ {k},
                    IF useMin THEN FracMin(acc, cells[k].avgTime) ELSE FracMax(acc, cells[k].avgTime),
                    useMin)

QuerySphere(g, center, radius) ==
  IF ~g.built THEN EmptyResult
  ELSE LET inc == IncludedCells(g, center, radius)
           total == SumOver([k \in inc |-> g.cells[k].count], inc)
           species == [s \in SpeciesBins |-> SumOver([k \in inc |-> g.cells[k].speciesHistogram[s]], inc)]
           times == [t \in TimeBins |-> SumOver([k \in inc |-> g.cells[k].timeHistogram[t]], inc)]
           minTime == FoldTime(g.cells, inc, Frac(TimeScale, 1), TRUE)
           maxTime == FoldTime(g.cells, inc, Frac(0, 1), FALSE)
       IN  [totalCount |-> total, speciesHistogram |-> species, timeHistogram |-> times,
            cellsQueried |-> Cardinality(inc),
            dominantSpecies |-> FindDominantSpecies(species),
            timeSpan |-> IF total > 0 THEN <<minTime, maxTime>> ELSE <<Frac(0, 1), Frac(0, 1)>>]

\* querySphere reads the grid and assigns to none of its fields
\* a variant that records the number of cells of the last query in the grid
GridAfterQueryCounting(g, center, radius) ==
  [g EXCEPT !.populatedCells = QuerySphere(g, center, radius).cellsQueried]

GridAfterQuery(g, center, radius) == g

\* where an array of a returned object lives: a new array, which only the
\* caller refers to, or an array that belongs to a cell of the grid
CallerOwned == [owner |-> "caller", key |-> <<0, 0, 0>>]
CellOwned(key) == [owner |-> "grid", key |-> key]

\* the arrays of the object querySphere returns
\* a variant that hands out the histograms of the cell when one cell is included
QuerySphereRefsShared(g, center, radius) ==
  LET inc == IF g.built THEN IncludedCells(g, center, radius) ELSE {}
  IN  IF Cardinality(inc) = 1
      THEN LET k == CHOOSE k \in inc : TRUE
           IN  [speciesHistogram |-> CellOwned(k), timeHistogram |-> CellOwned(k), timeSpan |-> CallerOwned]
      ELSE [speciesHistogram |-> CallerOwned, timeHistogram |-> CallerOwned, timeSpan |-> CallerOwned]

QuerySphereRefs(g, center, radius) ==
  [speciesHistogram |-> CallerOwned, timeHistogram |-> CallerOwned, timeSpan |-> CallerOwned]

\* ------------------------------------------------------------- TimeChunker

NewChunker(chunkCount) ==
  [chunkCount |-> chunkCount, chunks |-> <<>>, hasIndices |-> FALSE,
   sortedIndices |-> <<>>, hasData |-> FALSE, data |-> <<>>]

\* Array.prototype.sort with the comparator a.time - b.time: a stable sort.
\* The pair taken from position i goes after every pair already placed whose
\* time is not greater.
\* a variant that places a pair before the pairs of equal time
InsertSortedBeforeTies(sorted, e) ==
  LET n == Count(sorted)
      at == Cardinality({j \in DOMAIN sorted : sorted[j].time < e.time})
  IN  [j \in 0..n |-> IF j < at THEN sorted[j] ELSE IF j = at THEN e ELSE sorted[j - 1]]

InsertSorted(sorted, e) ==
  LET n == Count(sorted)
      at == Cardinality({j \in DOMAIN sorted : sorted[j].time <= e.time})
  IN  [j \in 0..n |-> IF j < at THEN sorted[j] ELSE IF j = at THEN e ELSE sorted[j - 1]]

RECURSIVE SortByTime(_, _, _)
SortByTime(indexed, sorted, i) ==
  IF i >= Count(indexed) THEN sorted
  ELSE SortByTime(indexed, InsertSorted(sorted, indexed[i]), i + 1)

\* chunk boundaries are kept as the chunk's number: chunk c spans
\* [c / chunkCount, (c + 1) / chunkCount)
Chunk(c, startIndex, endIndex) ==
  [startIndex |-> startIndex, endIndex |-> endIndex, timeStart |-> c, timeEnd |-> c + 1]

\* Math.min(Math.floor(time / chunkSize), chunkCount - 1), chunkSize = 1 / chunkCount
TargetChunk(time, chunkCount) == Min2(FloorDiv(time * chunkCount, TimeScale), chunkCount - 1)

\* the inner loop "while (currentChunk < targetChunk)" at sorted position i
RECURSIVE FillEmpty(_, _, _, _)
FillEmpty(st, targetChunk, i, chunkCount) ==
  IF st.currentChunk < targetChunk
  THEN FillEmpty([chunks |-> st.chunks @@ (st.currentChunk :> Chunk(st.currentChunk, st.chunkStart, i)),
                  currentChunk |-> st.currentChunk + 1, chunkStart |-> i],
                 targetChunk, i, chunkCount)
  ELSE st

RECURSIVE ChunkLoop(_, _, _, _)
ChunkLoop(st, indexed, i, chunkCount) ==
  IF i >= Count(indexed) THEN st
  ELSE ChunkLoop(FillEmpty(st, TargetChunk(indexed[i].time, chunkCount), i, chunkCount),
                 indexed, i + 1, chunkCount)

\* the loop "while (currentChunk < this.chunkCount)" after the scan
RECURSIVE FillRemaining(_, _, _)
FillRemaining(st, count, chunkCount) ==
  IF st.currentChunk < chunkCount
  THEN FillRemaining([st EXCEPT !.chunks = @ @@ (st.currentChunk :> Chunk(st.currentChunk, st.chunkStart, count)),
                                !.currentChunk = @ + 1],
                     count, chunkCount)
  ELSE st

BuildChunks(indexed, chunkCount) ==
  FillRemaining(ChunkLoop([chunks |-> <<>>, currentChunk |-> 0, chunkStart |-> 0],
                          indexed, 0, chunkCount),
                Count(indexed), chunkCount).chunks

BuildChunker(c, data) ==
  LET indexed == SortByTime([i \in DOMAIN data |-> [index |-> i, time |-> data[i].time]], <<>>, 0)
  IN  [c EXCEPT !.data = data, !.hasData = TRUE,
                !.sortedIndices = [i \in DOMAIN indexed |-> indexed[i].index],
                !.hasIndices = TRUE,
                !.chunks = BuildChunks(indexed, c.chunkCount)]

\* a variant whose upper search uses the lower search's comparison
RECURSIVE BinarySearchStrict(_, _, _, _, _)
BinarySearchStrict(c, targetTime, low, high, upper) ==
  IF low < high
  THEN LET mid == FloorDiv(low + high, 2)
           time == c.data[c.sortedIndices[mid]].time
       IN  IF time < targetTime
           THEN BinarySearchStrict(c, targetTime, mid + 1, high, upper)
           ELSE BinarySearchStrict(c, targetTime, low, mid, upper)
  ELSE low

\* a variant that searches as if the times were in descending order
RECURSIVE BinarySearchDescending(_, _, _, _, _)
BinarySearchDescending(c, targetTime, low, high, upper) ==
  IF low < high
  THEN LET mid == FloorDiv(low + high, 2)
           time == c.data[c.sortedIndices[mid]].time
       IN  IF (IF upper THEN time >= targetTime ELSE time > targetTime)
           THEN BinarySearchDescending(c, targetTime, mid + 1, high, upper)
           ELSE BinarySearchDescending(c, targetTime, low, mid, upper)
  ELSE low

RECURSIVE BinarySearch(_, _, _, _, _)
BinarySearch(c, targetTime, low, high, upper) ==
  IF low < high
  THEN LET mid == FloorDiv(low + high, 2)
           time == c.data[c.sortedIndices[mid]].time
       IN  IF (IF upper THEN time <= targetTime ELSE time < targetTime)
           THEN BinarySearch(c, targetTime, mid + 1, high, upper)
           ELSE BinarySearch(c, targetTime, low, mid, upper)
  ELSE low

BinarySearchLower(c, targetTime) ==
  IF ~c.hasData THEN 0 ELSE BinarySearch(c, targetTime, 0, Count(c.sortedIndices), FALSE)

BinarySearchUpper(c, targetTime) ==
  IF ~c.hasData THEN 0 ELSE BinarySearch(c, targetTime, 0, Count(c.sortedIndices), TRUE)

GetVisibleRange(c, currentTime, window) ==
  IF ~c.hasIndices THEN [startIndex |-> 0, endIndex |-> 0]
  ELSE [startIndex |-> BinarySearchLower(c, currentTime - window),
        endIndex |-> BinarySearchUpper(c, currentTime + window)]

\* the object literal { startIndex, endIndex }
GetVisibleRangeRefs(c, currentTime, window) == [object |-> CallerOwned]

\* chunk numbers from Math.floor(minTime / chunkSize), not below 0, to
\* Math.floor(maxTime / chunkSize), not above chunkCount - 1
GetOverlappingChunks(c, minTime, maxTime) ==
  LET startChunk == Max2(0, FloorDiv(minTime * c.chunkCount, TimeScale))
      endChunk == Min2(c.chunkCount - 1, FloorDiv(maxTime * c.chunkCount, TimeScale))
  IN  [j \in 0..(endChunk - startChunk) |-> startChunk + j]

\* the local array "chunks" the function fills and returns
GetOverlappingChunksRefs(c, minTime, maxTime) == [ids |-> CallerOwned]

\* the two queries read the index and assign to none of its fields
ChunkerAfterQuery(c) == c

\* ------------------------------------------------------- DensityAggregator

\* a density weight in [0,1] is d / DensityOne
DensityOne == 1000
\* the cell sizes 0.05 and 0.2 of the medium and the coarse level
MediumCell == 1
CoarseCell == 4
\* Math.floor(t * 30): the time buckets of a composite key
LodTimeBuckets == 30

NewAggregator ==
  [cellSizes |-> [medium |-> MediumCell, coarse |-> CoarseCell],
   built |-> FALSE,
   levels |-> [fine |-> [points |-> <<>>, count |-> 0, lodLevel |-> 0],
               medium |-> [points |-> <<>>, count |-> 0, lodLevel |-> 1],
               coarse |-> [points |-> <<>>, count |-> 0, lodLevel |-> 2]]]

\* a variant that rounds to the nearest cell: Math.round in place of Math.floor
LodKeyRounded(p, cellSize) ==
  <<FloorDiv(2 * p.pos[1] + cellSize, 2 * cellSize), FloorDiv(2 * p.pos[2] + cellSize, 2 * cellSize),
    FloorDiv(2 * p.pos[3] + cellSize, 2 * cellSize), FloorDiv(p.time * LodTimeBuckets, TimeScale)>>

LodKey(p, cellSize) ==
  <<FloorDiv(p.pos[1], cellSize), FloorDiv(p.pos[2], cellSize), FloorDiv(p.pos[3], cellSize),
    FloorDiv(p.time * LodTimeBuckets, TimeScale)>>

NewLodCell ==
  [sumX |-> 0, sumY |-> 0, sumZ |-> 0, sumT |-> 0, sumD |-> 0, count |-> 0,
   speciesCounts |-> ZeroSpecies]

\* st.order lists the keys in the order the Map first saw them
LodInsert(st, p, cellSize) ==
  LET key == LodKey(p, cellSize)
      seen == key \in DOMAIN st.cells
      cell == IF seen THEN st.cells[key] ELSE NewLodCell
      upd == [cell EXCEPT !.sumX = @ + p.pos[1], !.sumY = @ + p.pos[2], !.sumZ = @ + p.pos[3],
                          !.sumT = @ + p.time, !.sumD = @ + p.density, !.count = @ + 1,
                          !.speciesCounts = Bump(@, p.species)]
  IN  [order |-> IF seen THEN st.order ELSE st.order @@ (Count(st.order) :> key),
       cells |-> [k \in (DOMAIN st.cells) \cup {key} |-> IF k = key THEN upd ELSE st.cells[k]]]

RECURSIVE LodInsertAll(_, _, _, _)
LodInsertAll(st, data, cellSize, i) ==
  IF i >= Count(data) THEN st
  ELSE LodInsertAll(LodInsert(st, data[i], cellSize), data, cellSize, i + 1)

\* Math.min(1.0, Math.log10(count + 1) / 3) in thousandths, rounded
LogDensity(count) ==
  CASE count = 1 -> 100 [] count = 2 -> 159 [] count = 3 -> 201 [] count = 4 -> 233
    [] count = 5 -> 259 [] count = 6 -> 282 [] count = 7 -> 301 [] count = 8 -> 318

\* a variant whose density is the mean of the merged density weights
LodPointMeanDensity(cell) ==
  [pos |-> <<Frac(cell.sumX, cell.count), Frac(cell.sumY, cell.count), Frac(cell.sumZ, cell.count)>>,
   time |-> Frac(cell.sumT, cell.count),
   species |-> FindDominantSpecies(cell.speciesCounts),
   density |-> cell.sumD \div cell.count]

LodPoint(cell) ==
  [pos |-> <<Frac(cell.sumX, cell.count), Frac(cell.sumY, cell.count), Frac(cell.sumZ, cell.count)>>,
   time |-> Frac(cell.sumT, cell.count),
   species |-> FindDominantSpecies(cell.speciesCounts),
   density |-> Min2(DensityOne, LogDensity(cell.count))]

\* a variant that reports the length of the positions array as the count
AggregateLevelPositionsLength(data, cellSize, lodLevel) ==
  LET st == LodInsertAll([order |-> <<>>, cells |-> <<>>], data, cellSize, 0)
  IN  [points |-> [i \in DOMAIN st.order |-> LodPoint(st.cells[st.order[i]])],
       count |-> 3 * Cardinality(DOMAIN st.cells),
       lodLevel |-> lodLevel]

AggregateLevel(data, cellSize, lodLevel) ==
  LET st == LodInsertAll([order |-> <<>>, cells |-> <<>>], data, cellSize, 0)
  IN  [points |-> [i \in DOMAIN st.order |-> LodPoint(st.cells[st.order[i]])],
       count |-> Cardinality(DOMAIN st.cells),
       lodLevel |-> lodLevel]

FineLevel(data) == [points |-> data, count |-> Count(data), lodLevel |-> 0]

ProcessLevels(a, data) ==
  [a EXCEPT !.built = TRUE,
            !.levels = [fine |-> FineLevel(data),
                        medium |-> AggregateLevel(data, a.cellSizes.medium, 1),
                        coarse |-> AggregateLevel(data, a.cellSizes.coarse, 2)]]

\* LOD_DISTANCES.detail = 0.5 and LOD_DISTANCES.medium = 2.0 in position units
LodDetail == 10
LodMedium == 40

\* a variant whose thresholds belong to the nearer level
GetLevelForDistanceInclusive(a, distance) ==
  IF distance <= LodDetail THEN a.levels.fine
  ELSE IF distance <= LodMedium THEN a.levels.medium
  ELSE a.levels.coarse

GetLevelForDistance(a, distance) ==
  IF distance < LodDetail THEN a.levels.fine
  ELSE IF distance < LodMedium THEN a.levels.medium
  ELSE a.levels.coarse

\* getLevelForDistance reads this.levels and assigns to no field
AggregatorAfterQuery(a) == a

\* ---------------------------------------------- renderer: derived confidence

\* RENDER_BUDGET.maxVisibleInstances, the capacity of the instance buffers
MaxInstances == 2

\* a confidence c stands for c / 1000000
ConfOne == 1000000

\* Math.exp(-density * 3) in millionths, for densities in tenths and for the
\* densities of merged cells (LogDensity)
ExpNeg3(d) ==
  CASE d = 0 -> 1000000 [] d = 100 -> 740818 [] d = 200 -> 548812 [] d = 300 -> 406570
    [] d = 400 -> 301194 [] d = 500 -> 223130 [] d = 600 -> 165299 [] d = 700 -> 122456
    [] d = 800 -> 90718 [] d = 900 -> 67206 [] d = 1000 -> 49787
    [] d = 159 -> 620643 [] d = 201 -> 547168 [] d = 233 -> 497082 [] d = 259 -> 459783
    [] d = 282 -> 429128 [] d = 301 -> 405352 [] d = 318 -> 385197

\* 1.0 - lodLevel * 0.25, in quarters
LodConfidenceMultiplier(lodLevel) == 4 - lodLevel

\* a variant whose LOD multiplier grows with the level: 1.0 + lodLevel * 0.25
ComputeConfidenceLodGain(density, lodLevel) ==
  LET densityConfidence == 200000 + (7 * (ConfOne - ExpNeg3(density))) \div 10
      finalConfidence == (densityConfidence * (4 + lodLevel)) \div 4
  IN  Max2(100000, Min2(950000, finalConfidence))

\* a variant without the 0.2 floor, the 0.7 scale and the clamp
ComputeConfidenceRaw(density, lodLevel) ==
  ((ConfOne - ExpNeg3(density)) * LodConfidenceMultiplier(lodLevel)) \div 4

ComputeConfidence(density, lodLevel) ==
  LET densityConfidence == 200000 + (7 * (ConfOne - ExpNeg3(density))) \div 10
      finalConfidence == (densityConfidence * LodConfidenceMultiplier(lodLevel)) \div 4
  IN  Max2(100000, Min2(950000, finalConfidence))

NewRenderer ==
  [maxInstances |-> MaxInstances, instanceCount |-> 0, buffersAllocated |-> FALSE,
   densities |-> [i \in 0..(MaxInstances - 1) |-> 0],
   confidences |-> [i \in 0..(MaxInstances - 1) |-> 0]]

\* loadData: in.points are the parallel arrays, in.hasDensities and
\* in.hasConfidences say whether the optional arrays were passed
LoadRenderer(r, in) ==
  LET loadCount == Min2(in.count, r.maxInstances)
      dens == [i \in DOMAIN r.densities |->
                 IF i < loadCount THEN (IF in.hasDensities THEN in.points[i].density ELSE 500)
                 ELSE r.densities[i]]
  IN  [r EXCEPT !.densities = dens,
                !.confidences = [i \in DOMAIN r.confidences |->
                                   IF i >= loadCount THEN r.confidences[i]
                                   ELSE IF in.hasConfidences THEN in.points[i].confidence
                                   ELSE ComputeConfidence(dens[i], in.lodLevel)],
                !.instanceCount = loadCount,
                !.buffersAllocated = TRUE]

\* ------------------------------------------ interaction: gestures and frames

\* times are milliseconds; palm openness, speeds and the pinch distance are
\* thousandths of the source's units
GestureState ==
  [IDLE |-> "idle", TIME_SCRUB |-> "time_scrub", INSPECT |-> "inspect",
   RESET_PENDING |-> "reset_pending", RESET_ACTIVE |-> "reset_active"]

\* GESTURE.timeScrub.palmOpenThreshold = 0.06
PalmOpenThreshold == 60
\* the 0.7 both palms must exceed in _checkResetGesture
ResetPalmOpenness == 700
\* GESTURE.inspect.pinchThreshold = 0.025
PinchThreshold == 25
\* GESTURE.reset.movementThreshold = 0.02
MovementThreshold == 20
\* GESTURE.reset.holdDuration = 1.5 seconds
HoldDuration == 1500
\* InspectGesture.queryInterval = 100 ms
QueryInterval == 100
\* InspectGesture.inspectRadius = 0.5 world units
InspectRadius == 10

\* _createHandData; the pinch distance Infinity is one metre here, tips says
\* whether joints holds the thumb tip and the index finger tip
NewHand ==
  [visible |-> FALSE, palmOpenness |-> 0, pinchDistance |-> 1000, tips |-> FALSE,
   pinchPoint |-> <<0, 0, 0>>, speed |-> 0]

\* HandTracker.update for one hand: a hand that is not visible keeps its
\* joints and derived values and only loses the visible flag
UpdateHand(hand, raw) == IF raw.visible THEN raw ELSE [hand EXCEPT !.visible = FALSE]

GetPinchPoint(hand) == [isNull |-> ~hand.tips, point |-> hand.pinchPoint]

NoInspectResult == [isNull |-> TRUE, result |-> EmptyResult]

NewInspect ==
  [isActive |-> FALSE, inspectPosition |-> <<0, 0, 0>>, inspectRadius |-> InspectRadius,
   hasGrid |-> FALSE, lastResult |-> NoInspectResult, lastQueryTime |-> 0,
   queryInterval |-> QueryInterval]

\* InspectGesture.activate: "force immediate query" resets lastQueryTime
Activate(i, position) ==
  [i EXCEPT !.isActive = TRUE, !.inspectPosition = position, !.lastQueryTime = 0]

Deactivate(i) == [i EXCEPT !.isActive = FALSE, !.lastResult = NoInspectResult]

\* now - this.lastQueryTime >= this.queryInterval
QueryDue(i, now) == now - i.lastQueryTime >= i.queryInterval

\* _performQuery: nothing without a built grid
PerformQuery(i, g) ==
  IF ~i.hasGrid \/ ~g.built THEN i
  ELSE [i EXCEPT !.lastResult = [isNull |-> FALSE,
                                 result |-> QuerySphere(g, i.inspectPosition, i.inspectRadius)]]

\* InspectGesture.update(position, camera)
InspectUpdate(i, g, position, now) ==
  IF ~i.isActive THEN i
  ELSE LET moved == [i EXCEPT !.inspectPosition = position]
       IN  IF QueryDue(moved, now) THEN PerformQuery([moved EXCEPT !.lastQueryTime = now], g)
           ELSE moved

\* the onInspect callback wired in _initInteraction
OnInspect(i, point, active) ==
  IF active /\ ~point.isNull THEN Activate(i, point.point) ELSE Deactivate(i)

NewRecognizer == [state |-> GestureState.IDLE, resetHoldTime |-> 0]

TransitionTo(r, newState) == [r EXCEPT !.state = newState]

\* _checkResetGesture: both palms open and still; handled says it returned true
CheckResetGesture(r, left, right, deltaTime) ==
  LET bothVisible == left.visible /\ right.visible
      bothOpen == left.palmOpenness > ResetPalmOpenness /\ right.palmOpenness > ResetPalmOpenness
      areStill == left.speed < MovementThreshold /\ right.speed < MovementThreshold
      dropped == [state |-> IF r.state = GestureState.RESET_PENDING THEN GestureState.IDLE ELSE r.state,
                  resetHoldTime |-> 0]
      holdTime == r.resetHoldTime + deltaTime
  IN  IF ~bothVisible \/ ~bothOpen THEN [rec |-> dropped, handled |-> FALSE]
      ELSE IF ~areStill THEN [rec |-> dropped, handled |-> FALSE]
      ELSE IF holdTime >= HoldDuration
      THEN [rec |-> [state |-> GestureState.RESET_ACTIVE, resetHoldTime |-> 0], handled |-> TRUE]
      ELSE [rec |-> [state |-> GestureState.RESET_PENDING, resetHoldTime |-> holdTime], handled |-> TRUE]

\* _checkTimeScrubGesture: left palm open
CheckTimeScrubGesture(r, left) ==
  IF ~left.visible \/ ~(left.palmOpenness > PalmOpenThreshold)
  THEN [rec |-> IF r.state = GestureState.TIME_SCRUB THEN TransitionTo(r, GestureState.IDLE) ELSE r,
        handled |-> FALSE]
  ELSE [rec |-> TransitionTo(r, GestureState.TIME_SCRUB), handled |-> TRUE]

\* _checkInspectGesture: right pinch; onInspect fires on every frame of a pinch
CheckInspectGesture(r, i, right) ==
  IF ~right.visible \/ ~(right.pinchDistance < PinchThreshold)
  THEN IF r.state = GestureState.INSPECT
       THEN [rec |-> TransitionTo(r, GestureState.IDLE),
             inspect |-> OnInspect(i, [isNull |-> TRUE, point |-> <<0, 0, 0>>], FALSE),
             handled |-> FALSE]
       ELSE [rec |-> r, inspect |-> i, handled |-> FALSE]
  ELSE [rec |-> TransitionTo(r, GestureState.INSPECT),
        inspect |-> OnInspect(i, GetPinchPoint(right), TRUE),
        handled |-> TRUE]

\* GestureRecognizer.update: reset first, then time scrub, then inspect
RecognizerUpdate(r, i, hs, deltaTime) ==
  LET reset == CheckResetGesture(r, hs.left, hs.right, deltaTime)
      scrub == CheckTimeScrubGesture(reset.rec, hs.left)
      insp == CheckInspectGesture(scrub.rec, i, hs.right)
  IN  IF reset.handled THEN [rec |-> reset.rec, inspect |-> i]
      ELSE IF scrub.handled THEN [rec |-> scrub.rec, inspect |-> i]
      ELSE IF insp.handled THEN [rec |-> insp.rec, inspect |-> insp.inspect]
      ELSE [rec |-> TransitionTo(insp.rec, GestureState.IDLE), inspect |-> insp.inspect]

\* ------------------------------------------------------------------ inputs

\* point sets handed to SpatialGrid.build: two points of one cell, two further
\* cells on two axes, the first and the last time bucket, two species
GridPositions == {<<0, 0, 0>>, <<4, 0, 0>>, <<12, 0, 0>>, <<0, 24, 0>>}
GridPoints ==
  {[pos |-> q, time |-> ts[1], species |-> ts[2], density |-> DensityOne] :
     q \in GridPositions, ts \in {<<0, 1>>, <<TimeScale, 2>>}}
GridPointSets == Arrays(GridPoints, MaxGridPoints)
\* sphere queries: a centre on a data point or off it, a radius of zero, of
\* less than one cell, and one whose sphere covers every grid built here
Centers == {<<0, 0, 0>>, <<12, 0, 0>>}
WholeRadius == 60
Radii == {0, 4, WholeRadius}

\* point sets handed to TimeChunker.build: only the time matters; time 0,
\* the inner time 1/2 (a bucket edge for two chunks) and time 1
TimeValues == {0, 4, TimeScale}
TimePoints == {[pos |-> <<0, 0, 0>>, time |-> t, species |-> 1, density |-> DensityOne] : t \in TimeValues}
TimePointSets == Arrays(TimePoints, MaxTimePoints)
ChunkCounts == {2, 3}
DefaultChunkCount == 30
QueryTimes == {0, 4, TimeScale}
Windows == {-1, 0, 4}

\* point sets handed to DensityAggregator.process: neighbours in one coarse
\* cell, a negative coordinate, a point of another coarse cell
LodPositions == {<<0, 0, 0>>, <<1, 0, 0>>, <<-1, 0, 0>>, <<4, 0, 0>>, <<0, 3, 0>>}
LodPoints ==
  {[pos |-> q, time |-> ts[1], species |-> ts[2], density |-> ts[3]] :
     q \in LodPositions, ts \in {<<0, 1, 0>>, <<3, 2, DensityOne>>}}
LodPointSets == Arrays(LodPoints, MaxLodPoints)

\* data handed to loadData: density 0 or 1, any LOD level, with or
\* without the optional densities and confidences arrays, up to one record
\* more than the buffers hold
RenderPoints ==
  {[pos |-> <<0, 0, 0>>, time |-> 0, species |-> 1, density |-> d, confidence |-> c] :
     d \in {0, DensityOne}, c \in {0}}
RenderInputs ==
  {[points |-> pts, count |-> Count(pts), lodLevel |-> l, hasDensities |-> hd, hasConfidences |-> hc] :
     pts \in Arrays(RenderPoints, MaxInstances + 1), l \in 0..2, hd \in BOOLEAN, hc \in BOOLEAN}

\* point sets whose species ids may lie outside 0..7
MaxSpeciesPoints == 2
WideSpecies == {-1, 1, 8}
SpeciesPoints ==
  {[pos |-> q, time |-> 0, species |-> s, density |-> DensityOne] :
     q \in {<<0, 0, 0>>, <<12, 0, 0>>}, s \in WideSpecies}
SpeciesPointSets == Arrays(SpeciesPoints, MaxSpeciesPoints)

\* camera distances around the two thresholds
Distances == {0, LodDetail - 1, LodDetail, LodMedium - 1, LodMedium, 200}
\* time ranges handed to getOverlappingChunks: all of [0,1], one instant, a
\* range that starts before 0
ChunkRanges == {<<0, TimeScale>>, <<4, 4>>, <<-1, 0>>}

\* options.cellSizes handed to the DensityAggregator constructor: the
\* defaults, two further pairs with a coarse size that is a multiple of the
\* medium size, and one pair where it is not
CellSizeOptions ==
  {[medium |-> MediumCell, coarse |-> CoarseCell], [medium |-> 2, coarse |-> 4],
   [medium |-> 2, coarse |-> 6], [medium |-> 2, coarse |-> 3]}
\* neighbouring points on one axis, so that medium cells of size 2 merge points
CellSizePoints ==
  {[pos |-> <<x, 0, 0>>, time |-> 0, species |-> 1, density |-> DensityOne] : x \in -1..4}
CellSizePointSets == Arrays(CellSizePoints, MaxLodPoints)

\* range ends handed to getOverlappingChunks: 0, 1/8, 1/2 and 1
OverlapTimes == {0, 1, 4, TimeScale}

\* point sets with ties and majorities among the species of one cell and of
\* two cells
MaxDominantPoints == 3
DominantPoints ==
  {[pos |-> ps[1], time |-> 0, species |-> ps[2], density |-> DensityOne] :
     ps \in {<<(<<0, 0, 0>>), 1>>, <<(<<0, 0, 0>>), 2>>, <<(<<12, 0, 0>>), 2>>}}
DominantPointSets == Arrays(DominantPoints, MaxDominantPoints)

\* point sets of coincident points and of points of two cells, for a grid
\* that is built again and again
RebuildPoints ==
  {[pos |-> q, time |-> 0, species |-> 1, density |-> DensityOne] : q \in {<<0, 0, 0>>, <<12, 0, 0>>}}
RebuildPointSets == Arrays(RebuildPoints, MaxGridPoints)

\* the three builders on one small family of point sets: the empty set, one
\* point, two points of two cells
CorePointSets ==
  {<<>>,
   (0 :> [pos |-> <<0, 0, 0>>, time |-> 0, species |-> 1, density |-> DensityOne]),
   (0 :> [pos |-> <<0, 0, 0>>, time |-> 0, species |-> 1, density |-> DensityOne])
     @@ (1 :> [pos |-> <<12, 0, 0>>, time |-> TimeScale, species |-> 2, density |-> 0])}

\* ----------------------------------------------------------- state machine

NoQuery == [asked |-> FALSE, center |-> <<0, 0, 0>>, radius |-> 0, result |-> EmptyResult]
NoRange == [asked |-> FALSE, time |-> 0, window |-> 0, result |-> [startIndex |-> 0, endIndex |-> 0]]
NoLoad == [called |-> FALSE, lodLevel |-> 0, hasConfidences |-> FALSE]
NoChunks == [asked |-> FALSE, minTime |-> 0, maxTime |-> 0, result |-> <<>>]
NoLevel == [asked |-> FALSE, distance |-> 0, isNull |-> TRUE, lodLevel |-> 0, count |-> 0]
\* no array of that name was returned
NotReturned == [owner |-> "none", key |-> <<0, 0, 0>>]
NoRefs ==
  [speciesHistogram |-> NotReturned, timeHistogram |-> NotReturned, timeSpan |-> NotReturned,
   object |-> NotReturned, ids |-> NotReturned]
NoHeld ==
  [kind |-> "none", sphere |-> EmptyResult, range |-> [startIndex |-> 0, endIndex |-> 0], ids |-> <<>>,
   refs |-> NoRefs, written |-> FALSE]

\* the cap _loadData applies: MAX_SAFE_INSTANCES, the renderer's budget
MaxSafeInstances == MaxInstances

\* longest point set handed to _loadData: one more than the cap
MaxLoadPoints == 3
\* load inputs: coincident points, neighbours of one coarse cell two medium
\* cells apart, and further coarse cells, all at time 0
LoadPositions == {<<0, 0, 0>>, <<2, 0, 0>>, <<4, 0, 0>>, <<8, 0, 0>>, <<0, 4, 0>>}
LoadPoints == {[pos |-> q, time |-> 0, species |-> 1, density |-> DensityOne] : q \in LoadPositions}
LoadPointSets == Arrays(LoadPoints, MaxLoadPoints)
\* the one data set of the frame loop's runs
FramePointSets == {(0 :> [pos |-> <<0, 0, 0>>, time |-> 0, species |-> 1, density |-> DensityOne])}

\* frame periods and the last clock value a run reaches
FramePeriods == {80, 750}
MaxClock == 1600
\* what the XR session reports for a hand in one frame: hidden, half open,
\* wide open and still, wide open and moving
RawLeftHands ==
  {NewHand} \cup
  {[visible |-> TRUE, palmOpenness |-> os[1], pinchDistance |-> 80, tips |-> TRUE,
    pinchPoint |-> <<0, 0, 0>>, speed |-> os[2]] : os \in {<<500, 0>>, <<1000, 0>>, <<1000, 50>>}}
\* hidden, pinching at one point, pinching at the other with the palm wide open
RawRightHands ==
  {NewHand} \cup
  {[visible |-> TRUE, palmOpenness |-> 500, pinchDistance |-> 10, tips |-> TRUE,
    pinchPoint |-> <<0, 0, 0>>, speed |-> 0],
   [visible |-> TRUE, palmOpenness |-> 1000, pinchDistance |-> 10, tips |-> TRUE,
    pinchPoint |-> <<4, 0, 0>>, speed |-> 0]}

NewApp == [dataLoaded |-> FALSE, activeLOD |-> "none", activeCount |-> 0, inputCount |-> 0, error |-> FALSE]
\* no querySphere call in the pinch being held; calls counts up to two
NoCalls == [held |-> FALSE, calls |-> 0, lastAt |-> 0, gap |-> 0]

gridVars == <<grid, gridBuilds, gridInput, sphereResult>>
timeVars == <<chunker, rangeResult, chunksResult>>
lodVars == <<aggregator, lodInput, levelResult>>
renderVars == <<renderer, renderLoad>>
callerVars == <<held>>
loadVars == <<app>>
gestureVars == <<hands, recognizer, inspect, clock, inspectCalls>>
vars == <<grid, gridBuilds, gridInput, sphereResult, chunker, rangeResult, aggregator, lodInput, renderer, renderLoad,
          chunksResult, levelResult, held, app, hands, recognizer, inspect, clock, inspectCalls>>

InitGrid ==
  /\ grid = NewGrid
  /\ gridBuilds = 0
  /\ gridInput = <<>>
  /\ sphereResult = NoQuery

InitTime(counts) ==
  /\ chunker \in {NewChunker(n) : n \in counts}
  /\ rangeResult = NoRange
  /\ chunksResult = NoChunks

InitLod ==
  /\ aggregator = NewAggregator
  /\ lodInput = <<>>
  /\ levelResult = NoLevel

InitRender ==
  /\ renderer = NewRenderer
  /\ renderLoad = NoLoad

\* the caller holds no result yet
InitCaller == held = NoHeld

InitApp == app = NewApp

InitGesture ==
  /\ hands = [left |-> NewHand, right |-> NewHand]
  /\ recognizer = NewRecognizer
  /\ inspect = NewInspect
  /\ clock = 0
  /\ inspectCalls = NoCalls

\* SpatialGrid.build(processedData)
Build(data) ==
  /\ gridBuilds < MaxBuilds
  /\ grid' = BuildGrid(grid, data)
  /\ gridBuilds' = gridBuilds + 1
  /\ gridInput' = data
  /\ UNCHANGED <<sphereResult, timeVars, lodVars, renderVars, callerVars, loadVars, gestureVars>>

\* SpatialGrid.querySphere(center, radius)
QuerySphereCall(center, radius) ==
  /\ sphereResult' = [asked |-> TRUE, center |-> center, radius |-> radius,
                      result |-> QuerySphere(grid, center, radius)]
  /\ grid' = GridAfterQuery(grid, center, radius)
  /\ UNCHANGED <<gridBuilds, gridInput, timeVars, lodVars, renderVars, callerVars, loadVars, gestureVars>>

\* TimeChunker.build(processedData)
ChunkerBuild(data) ==
  /\ chunker' = BuildChunker(chunker, data)
  /\ UNCHANGED <<rangeResult, chunksResult, gridVars, lodVars, renderVars, callerVars, loadVars, gestureVars>>

\* TimeChunker.getVisibleRange(currentTime, window)
GetVisibleRangeCall(t, w) ==
  /\ rangeResult' = [asked |-> TRUE, time |-> t, window |-> w,
                     result |-> GetVisibleRange(chunker, t, w)]
  /\ chunker' = ChunkerAfterQuery(chunker)
  /\ UNCHANGED <<chunksResult, gridVars, lodVars, renderVars, callerVars, loadVars, gestureVars>>

\* TimeChunker.getOverlappingChunks(minTime, maxTime)
GetOverlappingChunksCall(minTime, maxTime) ==
  /\ chunksResult' = [asked |-> TRUE, minTime |-> minTime, maxTime |-> maxTime,
                      result |-> GetOverlappingChunks(chunker, minTime, maxTime)]
  /\ chunker' = ChunkerAfterQuery(chunker)
  /\ UNCHANGED <<rangeResult, gridVars, lodVars, renderVars, callerVars, loadVars, gestureVars>>

\* DensityAggregator.process(processedData)
Process(data) ==
  /\ aggregator' = ProcessLevels(aggregator, data)
  /\ lodInput' = data
  /\ UNCHANGED <<levelResult, gridVars, timeVars, renderVars, callerVars, loadVars, gestureVars>>

\* DensityAggregator.getLevelForDistance(distance); before process the levels
\* are null and so is the result
GetLevelForDistanceCall(distance) ==
  /\ levelResult' = [asked |-> TRUE, distance |-> distance, isNull |-> ~aggregator.built,
                     lodLevel |-> GetLevelForDistance(aggregator, distance).lodLevel,
                     count |-> GetLevelForDistance(aggregator, distance).count]
  /\ aggregator' = AggregatorAfterQuery(aggregator)
  /\ UNCHANGED <<lodInput, gridVars, timeVars, renderVars, callerVars, loadVars, gestureVars>>

\* what the caller reads through the references it holds: its own arrays, or
\* the arrays of a cell where a reference points into the grid
HeldView(h, g) ==
  [h EXCEPT
     !.sphere.speciesHistogram = IF h.refs.speciesHistogram.owner = "grid"
                                 THEN g.cells[h.refs.speciesHistogram.key].speciesHistogram ELSE @,
     !.sphere.timeHistogram = IF h.refs.timeHistogram.owner = "grid"
                              THEN g.cells[h.refs.timeHistogram.key].timeHistogram ELSE @]

\* the caller overwrites the first element of every array of the held result
WriteOwn(h) ==
  IF h.kind = "sphere"
  THEN [h EXCEPT
          !.sphere.speciesHistogram = IF h.refs.speciesHistogram.owner = "caller" THEN [@ EXCEPT ![0] = 7] ELSE @,
          !.sphere.timeHistogram = IF h.refs.timeHistogram.owner = "caller" THEN [@ EXCEPT ![0] = 7] ELSE @,
          !.sphere.timeSpan = IF h.refs.timeSpan.owner = "caller" THEN <<Frac(7, 1), @[2]>> ELSE @]
  ELSE IF h.kind = "range"
  THEN [h EXCEPT !.range.startIndex = 7]
  ELSE [h EXCEPT !.ids = [i \in (DOMAIN h.ids) \cup {0} |-> IF i = 0 THEN 7 ELSE h.ids[i]]]

\* the same writes where a reference points into the grid
WriteThrough(h, g) ==
  IF h.kind # "sphere" THEN g
  ELSE [g EXCEPT !.cells =
          [k \in DOMAIN g.cells |->
             [g.cells[k] EXCEPT
                !.speciesHistogram = IF h.refs.speciesHistogram = CellOwned(k) THEN [@ EXCEPT ![0] = 7] ELSE @,
                !.timeHistogram = IF h.refs.timeHistogram = CellOwned(k) THEN [@ EXCEPT ![0] = 7] ELSE @]]]

\* a caller keeps the object querySphere returned (InspectGesture.lastResult)
HoldSphere(center, radius) ==
  /\ held' = [NoHeld EXCEPT !.kind = "sphere", !.sphere = QuerySphere(grid, center, radius),
                            !.refs = QuerySphereRefs(grid, center, radius) @@ NoRefs]
  /\ grid' = GridAfterQuery(grid, center, radius)
  /\ UNCHANGED <<gridBuilds, gridInput, sphereResult, timeVars, lodVars, renderVars, loadVars, gestureVars>>

\* a caller keeps the object getVisibleRange returned
HoldRange(t, w) ==
  /\ held' = [NoHeld EXCEPT !.kind = "range", !.range = GetVisibleRange(chunker, t, w),
                            !.refs = GetVisibleRangeRefs(chunker, t, w) @@ NoRefs]
  /\ chunker' = ChunkerAfterQuery(chunker)
  /\ UNCHANGED <<rangeResult, chunksResult, gridVars, lodVars, renderVars, loadVars, gestureVars>>

\* a caller keeps the array getOverlappingChunks returned
HoldChunks(minTime, maxTime) ==
  /\ held' = [NoHeld EXCEPT !.kind = "chunks", !.ids = GetOverlappingChunks(chunker, minTime, maxTime),
                            !.refs = GetOverlappingChunksRefs(chunker, minTime, maxTime) @@ NoRefs]
  /\ chunker' = ChunkerAfterQuery(chunker)
  /\ UNCHANGED <<rangeResult, chunksResult, gridVars, lodVars, renderVars, loadVars, gestureVars>>

\* the caller writes into the result it holds
WriteHeld ==
  /\ held.kind # "none"
  /\ ~held.written
  /\ held' = [WriteOwn(held) EXCEPT !.written = TRUE]
  /\ grid' = WriteThrough(held, grid)
  /\ UNCHANGED <<gridBuilds, gridInput, sphereResult, timeVars, lodVars, renderVars, loadVars, gestureVars>>

\* WhaleInstanceRenderer.loadData(processedData)
LoadData(in) ==
  /\ renderer' = LoadRenderer(renderer, in)
  /\ renderLoad' = [called |-> TRUE, lodLevel |-> in.lodLevel, hasConfidences |-> in.hasConfidences]
  /\ UNCHANGED <<gridVars, timeVars, lodVars, callerVars, loadVars, gestureVars>>

\* the level _loadData hands to the renderer and the grid
LevelName(lodLevel) == CASE lodLevel = 0 -> "fine" [] lodLevel = 1 -> "medium" [] lodLevel = 2 -> "coarse"

SelectLevel(levels, count) ==
  IF count > MaxSafeInstances
  THEN IF levels.medium.count <= MaxSafeInstances THEN levels.medium ELSE levels.coarse
  ELSE levels.fine

\* the points of a level at the resolution of the grid's positions and times
LevelPoints(level) ==
  IF level.lodLevel = 0 THEN level.points
  ELSE [i \in DOMAIN level.points |->
          [pos |-> [a \in 1..3 |-> FloorDiv(level.points[i].pos[a].n, level.points[i].pos[a].d)],
           time |-> FloorDiv(level.points[i].time.n, level.points[i].time.d),
           species |-> level.points[i].species,
           density |-> level.points[i].density]]

\* LeviathanApp._loadData: time index, LOD levels, level selection under the
\* cap, renderer load, a new SpatialGrid over the selected level
AppLoadData(data) ==
  LET levels == ProcessLevels(aggregator, data).levels
      selectedData == SelectLevel(levels, Count(data))
      points == LevelPoints(selectedData)
  IN  /\ ~app.dataLoaded
      /\ chunker' = BuildChunker(chunker, data)
      /\ aggregator' = ProcessLevels(aggregator, data)
      /\ lodInput' = data
      /\ app' = [dataLoaded |-> TRUE, activeLOD |-> LevelName(selectedData.lodLevel),
                 activeCount |-> selectedData.count, inputCount |-> Count(data), error |-> FALSE]
      /\ renderer' = LoadRenderer(renderer, [points |-> points, count |-> selectedData.count,
                                             lodLevel |-> selectedData.lodLevel,
                                             hasDensities |-> TRUE, hasConfidences |-> FALSE])
      /\ renderLoad' = [called |-> TRUE, lodLevel |-> selectedData.lodLevel, hasConfidences |-> FALSE]
      /\ grid' = BuildGrid(NewGrid, points)
      /\ gridBuilds' = 1
      /\ gridInput' = points
      /\ inspect' = [inspect EXCEPT !.hasGrid = TRUE]
      /\ UNCHANGED <<sphereResult, rangeResult, chunksResult, levelResult, callerVars,
                     hands, recognizer, clock, inspectCalls>>

\* LeviathanApp._onXRFrame: hand tracker, gesture recognizer, then the inspect
\* handler unless a time scrub is active
XRFrame(rawLeft, rawRight, dt) ==
  LET hs == [left |-> UpdateHand(hands.left, rawLeft), right |-> UpdateHand(hands.right, rawRight)]
      now == clock + dt
      g == RecognizerUpdate(recognizer, inspect, hs, dt)
      isTimeScrubbing == g.rec.state = GestureState.TIME_SCRUB
      pinchPoint == GetPinchPoint(hs.right)
      updates == g.inspect.isActive /\ ~isTimeScrubbing /\ ~pinchPoint.isNull
      calls == updates /\ QueryDue(g.inspect, now) /\ g.inspect.hasGrid /\ grid.built
      pinchHeld == hs.right.visible /\ hs.right.pinchDistance < PinchThreshold
  IN  /\ now <= MaxClock
      /\ clock' = now
      /\ hands' = hs
      /\ recognizer' = g.rec
      /\ inspect' = IF updates THEN InspectUpdate(g.inspect, grid, pinchPoint.point, now) ELSE g.inspect
      /\ grid' = IF calls THEN GridAfterQuery(grid, pinchPoint.point, g.inspect.inspectRadius) ELSE grid
      /\ inspectCalls' =
           IF ~pinchHeld THEN NoCalls
           ELSE IF ~calls THEN [inspectCalls EXCEPT !.held = TRUE]
           ELSE [held |-> TRUE, calls |-> Min2(inspectCalls.calls + 1, 2), lastAt |-> now,
                 gap |-> IF inspectCalls.calls >= 1 THEN now - inspectCalls.lastAt ELSE 0]
      /\ UNCHANGED <<gridBuilds, gridInput, sphereResult, timeVars, lodVars, renderVars, callerVars, loadVars>>

NextGrid ==
  \/ \E data \in GridPointSets : Build(data)
  \/ \E center \in Centers, radius \in Radii : QuerySphereCall(center, radius)

\* the application's use of the grid: a new SpatialGrid per load, built once
NextGridOnce ==
  \/ \E data \in GridPointSets : ~grid.built /\ Build(data)
  \/ \E center \in Centers, radius \in Radii : QuerySphereCall(center, radius)

\* one grid and one aggregator fed records of any species id
NextSpecies ==
  \/ \E data \in SpeciesPointSets : ~grid.built /\ Build(data)
  \/ \E data \in SpeciesPointSets : Process(data)

\* a caller that keeps query results across later builds and queries
NextCaller ==
  \/ \E data \in CorePointSets : Build(data)
  \/ \E radius \in {0, WholeRadius} : HoldSphere(<<0, 0, 0>>, radius)
  \/ \E data \in CorePointSets : ChunkerBuild(data)
  \/ \E w \in {0, 4} : HoldRange(4, w)
  \/ \E range \in ChunkRanges : HoldChunks(range[1], range[2])
  \/ WriteHeld

\* structures built once and then queried again and again
NextQueries ==
  \/ \E data \in CorePointSets : ~grid.built /\ Build(data)
  \/ \E radius \in {0, WholeRadius} : QuerySphereCall(<<0, 0, 0>>, radius)
  \/ \E data \in CorePointSets : ~chunker.hasIndices /\ ChunkerBuild(data)
  \/ \E w \in {0, 4} : GetVisibleRangeCall(4, w)
  \/ \E range \in {<<0, TimeScale>>, <<4, 4>>} : GetOverlappingChunksCall(range[1], range[2])
  \/ \E data \in CorePointSets : ~aggregator.built /\ Process(data)
  \/ \E distance \in {0, LodMedium} : GetLevelForDistanceCall(distance)

\* one grid and one aggregator built once on point sets with species ties
NextDominant ==
  \/ \E data \in DominantPointSets : ~grid.built /\ Build(data)
  \/ \E radius \in {0, WholeRadius} : QuerySphereCall(<<0, 0, 0>>, radius)
  \/ \E data \in DominantPointSets : ~aggregator.built /\ Process(data)

\* one aggregator, processed once, asked for the level of a camera distance
NextLodSelect ==
  \/ \E data \in LodPointSets : ~aggregator.built /\ Process(data)
  \/ \E distance \in Distances : GetLevelForDistanceCall(distance)

\* one grid built several times on degenerate and on small point sets
NextRebuild ==
  \/ \E data \in RebuildPointSets : Build(data)
  \/ \E radius \in {0, WholeRadius} : QuerySphereCall(<<0, 0, 0>>, radius)

\* the application: one load, then frames
NextGesture ==
  \/ \E data \in FramePointSets : AppLoadData(data)
  \/ \E rawLeft \in RawLeftHands, rawRight \in RawRightHands, dt \in FramePeriods : XRFrame(rawLeft, rawRight, dt)

NextLoad == \E data \in LoadPointSets : AppLoadData(data)

\* one time index, built and asked for the chunks of a time range
NextChunks ==
  \/ \E data \in TimePointSets : ChunkerBuild(data)
  \/ \E minTime \in OverlapTimes, maxTime \in OverlapTimes : GetOverlappingChunksCall(minTime, maxTime)

\* aggregators of several cell sizes, each processing small point sets
NextCellSizes == \E data \in CellSizePointSets : Process(data)

NextTime ==
  \/ \E data \in TimePointSets : ChunkerBuild(data)
  \/ \E t \in QueryTimes, w \in Windows : GetVisibleRangeCall(t, w)

NextLod == \E data \in LodPointSets : Process(data)

NextRender == \E in \in RenderInputs : LoadData(in)

\* the three builders and their queries side by side
Next ==
  \/ \E data \in CorePointSets : Build(data)
  \/ \E radius \in {0, WholeRadius} : QuerySphereCall(<<0, 0, 0>>, radius)
  \/ \E data \in CorePointSets : ChunkerBuild(data)
  \/ \E w \in {0, 4} : GetVisibleRangeCall(4, w)
  \/ \E data \in CorePointSets : Process(data)

Init == InitGrid /\ InitTime({2}) /\ InitLod /\ InitRender /\ InitCaller /\ InitApp /\ InitGesture
\* every structure as constructed, the time index with the default chunk count
InitDefault == InitGrid /\ InitTime({DefaultChunkCount}) /\ InitLod /\ InitRender /\ InitCaller /\ InitApp /\ InitGesture
\* the time index constructed with each of the chunk counts
InitLodCellSizes ==
  /\ aggregator \in {[NewAggregator EXCEPT !.cellSizes = cs] : cs \in CellSizeOptions}
  /\ lodInput = <<>>
  /\ levelResult = NoLevel

InitCellSizes ==
  InitGrid /\ InitTime({DefaultChunkCount}) /\ InitLodCellSizes /\ InitRender /\ InitCaller /\ InitApp /\ InitGesture

InitChunkCounts == InitGrid /\ InitTime(ChunkCounts) /\ InitLod /\ InitRender /\ InitCaller /\ InitApp /\ InitGesture

SpecGrid == InitDefault /\ [][NextGrid]_vars
SpecGridOnce == InitDefault /\ [][NextGridOnce]_vars
SpecTime == InitChunkCounts /\ [][NextTime]_vars
SpecLod == InitDefault /\ [][NextLod]_vars
SpecRender == InitDefault /\ [][NextRender]_vars
SpecSpecies == InitDefault /\ [][NextSpecies]_vars
SpecCaller == Init /\ [][NextCaller]_vars
SpecRebuild == InitDefault /\ [][NextRebuild]_vars
SpecChunks == InitChunkCounts /\ [][NextChunks]_vars
SpecCellSizes == InitCellSizes /\ [][NextCellSizes]_vars
SpecGesture == InitDefault /\ [][NextGesture]_vars
SpecLoad == InitDefault /\ [][NextLoad]_vars
SpecLodSelect == InitDefault /\ [][NextLodSelect]_vars
SpecDominant == InitDefault /\ [][NextDominant]_vars
SpecQueries == Init /\ [][NextQueries]_vars
Spec == Init /\ [][Next]_vars

\* ------------------------------------------------------------------ claims

CellCountSum(g) == SumOver([k \in DOMAIN g.cells |-> g.cells[k].count], DOMAIN g.cells)

\* C1: after the first build on a grid the counts of the populated cells add
\* up to the input count, and every input point is counted in the one cell its
\* clamped index names (none dropped, none counted twice).
C1_PartitionAfterFirstBuild ==
  gridBuilds = 1 =>
    /\ CellCountSum(grid) = Count(gridInput)
    /\ grid.totalPoints = Count(gridInput)
    /\ \A k \in DOMAIN grid.cells :
         /\ \A a \in 1..3 : k[a] \in 0..(grid.gridDims[a] - 1)
         /\ grid.cells[k].count =
              Cardinality({i \in DOMAIN gridInput : CellKey(grid.gridMin, grid.gridDims, gridInput[i]) = k})
    /\ \A i \in DOMAIN gridInput : CellKey(grid.gridMin, grid.gridDims, gridInput[i]) \in DOMAIN grid.cells

C1_Witness ==
  /\ gridBuilds = 1
  /\ Count(gridInput) = 2
  /\ grid.populatedCells = 1
  /\ CellCountSum(grid) = 2

\* C2: a second build on the same grid leaves it as a new grid built on the
\* second point set alone: cells, counts, histograms, centroids, mean times
\* and statistics, and with them every querySphere result.
C2_RebuildReplaces ==
  gridBuilds >= 1 =>
    /\ grid = BuildGrid(NewGrid, gridInput)
    /\ \A center \in Centers, radius \in Radii :
         QuerySphere(grid, center, radius) = QuerySphere(BuildGrid(NewGrid, gridInput), center, radius)

\* C3: the chunk ranges partition the sorted permutation: chunk 0 starts at 0,
\* each chunk ends where the next starts, the last ends at count, the starts
\* do not decrease and the chunk sizes add up to count.
C3_ChunksPartition ==
  chunker.hasIndices =>
    LET n == chunker.chunkCount
        ch == chunker.chunks
        count == Count(chunker.sortedIndices)
    IN  /\ DOMAIN ch = 0..(n - 1)
        /\ ch[0].startIndex = 0
        /\ ch[n - 1].endIndex = count
        /\ \A c \in 0..(n - 2) : ch[c].endIndex = ch[c + 1].startIndex /\ ch[c].startIndex <= ch[c + 1].startIndex
        /\ \A c \in 0..(n - 1) : ch[c].startIndex <= ch[c].endIndex
        /\ SumOver([c \in 0..(n - 1) |-> ch[c].endIndex - ch[c].startIndex], 0..(n - 1)) = count
        /\ \A q \in 0..(count - 1) :
             Cardinality({c \in 0..(n - 1) : ch[c].startIndex <= q /\ q < ch[c].endIndex}) = 1

\* C4: sortedIndices is a permutation of 0..count-1, the times it points at do
\* not decrease, and records of equal time keep their original order.
C4_StableSortedPermutation ==
  chunker.hasIndices =>
    LET si == chunker.sortedIndices
        count == Count(chunker.data)
    IN  /\ DOMAIN si = 0..(count - 1)
        /\ {si[q] : q \in DOMAIN si} = 0..(count - 1)
        /\ \A q, r \in DOMAIN si :
             q < r => /\ chunker.data[si[q]].time <= chunker.data[si[r]].time
                      /\ chunker.data[si[q]].time = chunker.data[si[r]].time => si[q] < si[r]

C4_Witness ==
  /\ chunker.hasIndices
  /\ Count(chunker.data) = 3
  /\ chunker.data[0].time = chunker.data[2].time
  /\ chunker.data[1].time < chunker.data[0].time
  /\ chunker.sortedIndices = (0 :> 1 @@ 1 :> 0 @@ 2 :> 2)

\* C5: getVisibleRange(t, w) returns positions of the sorted permutation: the
\* positions in [startIndex, endIndex) are exactly those whose time lies in
\* [t - w, t + w], and for w >= 0 it holds 0 <= startIndex <= endIndex <= count.
C5_VisibleRangeExact ==
  chunker.hasIndices =>
    \A t \in QueryTimes, w \in Windows :
      LET r == GetVisibleRange(chunker, t, w)
          si == chunker.sortedIndices
          count == Count(si)
      IN  /\ {q \in DOMAIN si : r.startIndex <= q /\ q < r.endIndex}
               = {q \in DOMAIN si : t - w <= chunker.data[si[q]].time /\ chunker.data[si[q]].time <= t + w}
          /\ w >= 0 => (0 <= r.startIndex /\ r.startIndex <= r.endIndex /\ r.endIndex <= count)

C5_Witness ==
  /\ chunker.hasIndices
  /\ Count(chunker.data) = 3
  /\ rangeResult.asked
  /\ rangeResult.result = GetVisibleRange(chunker, rangeResult.time, rangeResult.window)
  /\ rangeResult.result = [startIndex |-> 1, endIndex |-> 2]
  /\ chunker.sortedIndices # [q \in 0..2 |-> q]

\* the sphere with this centre and radius holds every corner of the grid's box
CoversGrid(g, center, radius) ==
  \A corner \in {g.gridMin[1], g.gridMin[1] + g.gridDims[1] * CellSize}
            \X {g.gridMin[2], g.gridMin[2] + g.gridDims[2] * CellSize}
            \X {g.gridMin[3], g.gridMin[3] + g.gridDims[3] * CellSize} :
    (corner[1] - center[1]) * (corner[1] - center[1])
      + (corner[2] - center[2]) * (corner[2] - center[2])
      + (corner[3] - center[3]) * (corner[3] - center[3]) <= radius * radius

\* C6: a querySphere whose sphere covers the whole grid returns the sum of the
\* counts of the populated cells, which is the input count, and as many cells
\* queried as there are populated cells.
C6_WholeGridQuery ==
  grid.built =>
    \A center \in Centers, radius \in Radii :
      CoversGrid(grid, center, radius) =>
        LET r == QuerySphere(grid, center, radius)
        IN  /\ r.totalCount = CellCountSum(grid)
            /\ r.totalCount = Count(gridInput)
            /\ r.cellsQueried = grid.populatedCells

ZeroResult(r) ==
  /\ r.totalCount = 0
  /\ \A sp \in 0..7 : r.speciesHistogram[sp] = 0
  /\ \A tb \in 0..9 : r.timeHistogram[tb] = 0
  /\ r.cellsQueried = 0
  /\ r.dominantSpecies = 0
  /\ r.timeSpan[1].k = "num" /\ r.timeSpan[1].n = 0
  /\ r.timeSpan[2].k = "num" /\ r.timeSpan[2].n = 0

\* C7: on a grid never built querySphere returns the all-zero result, on a
\* time index never built getVisibleRange returns startIndex = endIndex = 0,
\* and neither call changes the structure.
C7_QueryBeforeBuild ==
  [][/\ (~grid.built /\ sphereResult' # sphereResult) =>
          (ZeroResult(sphereResult'.result) /\ grid' = grid)
     /\ (~chunker.hasIndices /\ rangeResult' # rangeResult) =>
          (rangeResult'.result.startIndex = 0 /\ rangeResult'.result.endIndex = 0 /\ chunker' = chunker)]_vars

C7_Witness ==
  /\ ~grid.built
  /\ sphereResult.asked
  /\ sphereResult.radius = WholeRadius
  /\ ~chunker.hasIndices
  /\ rangeResult.asked
  /\ rangeResult.window = 4

\* C8: the builders accept an empty point set: the grid then has no populated
\* cell and at least one cell over the unit box, every querySphere counts 0,
\* every getVisibleRange is empty, every chunk has a zero-length range and
\* every LOD level has count 0.
C8_EmptyInput ==
  /\ (gridBuilds >= 1 /\ Count(gridInput) = 0) =>
       /\ grid.populatedCells = 0
       /\ grid.totalCells >= 1
       /\ grid.gridMin = <<0, 0, 0>> /\ grid.gridMax = <<WorldUnit, WorldUnit, WorldUnit>>
       /\ \A center \in Centers, radius \in Radii : QuerySphere(grid, center, radius).totalCount = 0
  /\ (chunker.hasData /\ Count(chunker.data) = 0) =>
       /\ \A t \in QueryTimes, w \in Windows :
            LET r == GetVisibleRange(chunker, t, w) IN r.startIndex = r.endIndex
       /\ DOMAIN chunker.chunks = 0..(chunker.chunkCount - 1)
       /\ \A c \in DOMAIN chunker.chunks : chunker.chunks[c].startIndex = chunker.chunks[c].endIndex
  /\ (aggregator.built /\ Count(lodInput) = 0) =>
       /\ aggregator.levels.fine.count = 0
       /\ aggregator.levels.medium.count = 0
       /\ aggregator.levels.coarse.count = 0

\* C9: level 0 is the input (same count, same records) and the medium and the
\* coarse level hold no more points than level 0.
C9_LevelCounts ==
  aggregator.built =>
    /\ aggregator.levels.fine.count = Count(lodInput)
    /\ aggregator.levels.fine.points = lodInput
    /\ aggregator.levels.medium.count <= aggregator.levels.fine.count
    /\ aggregator.levels.coarse.count <= aggregator.levels.fine.count
    /\ aggregator.levels.medium.count = Count(aggregator.levels.medium.points)
    /\ aggregator.levels.coarse.count = Count(aggregator.levels.coarse.points)

C9_Witness ==
  /\ aggregator.built
  /\ aggregator.levels.fine.count = 2
  /\ aggregator.levels.medium.count = 2
  /\ aggregator.levels.coarse.count = 1

\* C10: every confidence derived from a density weight in [0,1] at LOD level
\* 0, 1 or 2 lies in [0.1, 0.95]; it is never 0 and never 1.
C10_ConfidenceRange ==
  (renderLoad.called /\ ~renderLoad.hasConfidences) =>
    \A i \in 0..(renderer.instanceCount - 1) :
      /\ 100000 <= renderer.confidences[i]
      /\ renderer.confidences[i] <= 950000
      /\ renderer.confidences[i] # 0
      /\ renderer.confidences[i] # ConfOne

C10_Witness ==
  /\ renderLoad.called
  /\ ~renderLoad.hasConfidences
  /\ renderLoad.lodLevel = 2
  /\ renderer.instanceCount = MaxInstances
  /\ renderer.densities[0] = 0
  /\ renderer.confidences[0] = 100000
  /\ renderer.densities[1] = DensityOne

\* the density weights the exponential table covers: 0, 0.1, ..., 1
ConfDensities == {100 * k : k \in 0..10}

\* C11: the derived confidence is monotonic: at one LOD level a larger density
\* weight never gives a smaller confidence, and at one density weight a higher
\* LOD level never gives a larger confidence.
C11_ConfidenceMonotonic ==
  (renderLoad.called /\ ~renderLoad.hasConfidences) =>
    \A i \in 0..(renderer.instanceCount - 1) :
      /\ \A j \in 0..(renderer.instanceCount - 1) :
           renderer.densities[i] <= renderer.densities[j] => renderer.confidences[i] <= renderer.confidences[j]
      /\ \A d \in ConfDensities :
           /\ d >= renderer.densities[i] => ComputeConfidence(d, renderLoad.lodLevel) >= renderer.confidences[i]
           /\ d <= renderer.densities[i] => ComputeConfidence(d, renderLoad.lodLevel) <= renderer.confidences[i]
      /\ \A l \in 0..2 :
           /\ l >= renderLoad.lodLevel => ComputeConfidence(renderer.densities[i], l) <= renderer.confidences[i]
           /\ l <= renderLoad.lodLevel => ComputeConfidence(renderer.densities[i], l) >= renderer.confidences[i]

C11_Witness ==
  /\ renderLoad.called
  /\ ~renderLoad.hasConfidences
  /\ renderLoad.lodLevel = 1
  /\ renderer.instanceCount = MaxInstances
  /\ renderer.densities[0] = 0
  /\ renderer.densities[1] = DensityOne
  /\ renderer.confidences[0] < renderer.confidences[1]
  /\ ComputeConfidence(0, 2) < renderer.confidences[0]
  /\ renderer.confidences[1] < ComputeConfidence(DensityOne, 0)

\* the keys of those cells in the order the Map iterates them
LodOrder(data, cellSize) == LodInsertAll([order |-> <<>>, cells |-> <<>>], data, cellSize, 0).order

\* the cells _aggregateLevel accumulates for a point set at one cell size
LodCells(data, cellSize) == LodInsertAll([order |-> <<>>, cells |-> <<>>], data, cellSize, 0).cells

\* C12: a record whose species id is outside 0..7 is clamped into 0..7 or
\* rejected: in the grid and in the aggregator every record a cell counts is
\* also in that cell's 8-bin species histogram, so the bins add up to count.
C12_SpeciesBoundsChecked ==
  /\ grid.built =>
       \A k \in DOMAIN grid.cells :
         SumOver(grid.cells[k].speciesHistogram, SpeciesBins) = grid.cells[k].count
  /\ aggregator.built =>
       \A cellSize \in {aggregator.cellSizes.medium, aggregator.cellSizes.coarse} :
         LET cells == LodCells(lodInput, cellSize)
         IN  \A k \in DOMAIN cells : SumOver(cells[k].speciesCounts, SpeciesBins) = cells[k].count

C15_RangeMonotonic ==
  chunker.hasIndices =>
    \A w \in Windows : \A t1, t2 \in QueryTimes :
      t1 <= t2 =>
        /\ GetVisibleRange(chunker, t1, w).startIndex <= GetVisibleRange(chunker, t2, w).startIndex
        /\ GetVisibleRange(chunker, t1, w).endIndex <= GetVisibleRange(chunker, t2, w).endIndex

C15_Witness ==
  /\ chunker.hasIndices
  /\ Count(chunker.data) = 3
  /\ rangeResult.asked
  /\ rangeResult.time = TimeScale
  /\ rangeResult.window = 0
  /\ rangeResult.result = GetVisibleRange(chunker, TimeScale, 0)
  /\ rangeResult.result.startIndex = 2
  /\ GetVisibleRange(chunker, 4, 0).startIndex = 1
  /\ GetVisibleRange(chunker, 0, 0).startIndex = 0

\* d is the lowest species id among those with the largest count in h
LowestLargest(h, d) ==
  /\ d \in SpeciesBins
  /\ \A s \in SpeciesBins : h[s] <= h[d]
  /\ \A s \in SpeciesBins : s < d => h[s] < h[d]

\* C16: the dominant species of a finalized cell, of a querySphere result and
\* of an aggregated LOD point is the species id with the largest histogram
\* count, the lowest such id when several share it, and 0 when all are zero.
C16_DominantLowestLargest ==
  /\ grid.built =>
       \A k \in DOMAIN grid.cells :
         grid.cells[k].count # 0 => LowestLargest(grid.cells[k].speciesHistogram, grid.cells[k].dominantSpecies)
  /\ LowestLargest(sphereResult.result.speciesHistogram, sphereResult.result.dominantSpecies)
  /\ aggregator.built =>
       /\ \A i \in DOMAIN aggregator.levels.medium.points :
            LowestLargest(LodCells(lodInput, MediumCell)[LodOrder(lodInput, MediumCell)[i]].speciesCounts,
                          aggregator.levels.medium.points[i].species)
       /\ \A i \in DOMAIN aggregator.levels.coarse.points :
            LowestLargest(LodCells(lodInput, CoarseCell)[LodOrder(lodInput, CoarseCell)[i]].speciesCounts,
                          aggregator.levels.coarse.points[i].species)

\* a tie in a cell won by the lower id seen second, a majority of the higher
\* id in a merged histogram, a tie in an aggregated point
C16_Witness ==
  /\ grid.built
  /\ Count(gridInput) = 3
  /\ gridInput[0].species = 2 /\ gridInput[1].species = 1
  /\ \E k \in DOMAIN grid.cells :
       /\ grid.cells[k].speciesHistogram[1] = 1 /\ grid.cells[k].speciesHistogram[2] = 1
       /\ grid.cells[k].dominantSpecies = 1
  /\ sphereResult.asked
  /\ sphereResult.result = QuerySphere(grid, sphereResult.center, sphereResult.radius)
  /\ sphereResult.result.speciesHistogram[1] = 1 /\ sphereResult.result.speciesHistogram[2] = 2
  /\ sphereResult.result.dominantSpecies = 2
  /\ aggregator.built
  /\ Count(lodInput) = 2
  /\ lodInput[0].species = 2
  /\ aggregator.levels.coarse.count = 1
  /\ aggregator.levels.coarse.points[0].species = 1

\* C17: after build every populated cell's speciesHistogram[s] is the number
\* of input points assigned to the cell with species s, and the cell's count
\* is their total.
C17_SpeciesHistogramExact ==
  grid.built =>
    \A k \in DOMAIN grid.cells :
      grid.cells[k].count # 0 =>
        /\ \A s \in SpeciesBins :
             grid.cells[k].speciesHistogram[s] =
               Cardinality({i \in DOMAIN gridInput :
                              /\ CellKey(grid.gridMin, grid.gridDims, gridInput[i]) = k
                              /\ gridInput[i].species = s})
        /\ grid.cells[k].count = SumOver(grid.cells[k].speciesHistogram, SpeciesBins)

\* C18: chunk k's range holds exactly the sorted positions whose time falls
\* in bucket k = min(floor(time * N), N - 1), and a chunk whose bucket holds
\* no point has a zero-length range that starts where the next populated
\* chunk starts.
C18_ChunkBuckets ==
  chunker.hasIndices =>
    LET n == chunker.chunkCount
        ch == chunker.chunks
        si == chunker.sortedIndices
        bucket(q) == Min2(FloorDiv(chunker.data[si[q]].time * n, TimeScale), n - 1)
    IN  \A c \in 0..(n - 1) :
          /\ {q \in DOMAIN si : ch[c].startIndex <= q /\ q < ch[c].endIndex} = {q \in DOMAIN si : bucket(q) = c}
          /\ {q \in DOMAIN si : bucket(q) = c} = {} =>
               /\ ch[c].startIndex = ch[c].endIndex
               /\ ch[c].startIndex = Cardinality({q \in DOMAIN si : bucket(q) < c})

\* the lodInput with its density weights replaced by dens
WithDensities(data, dens) == [i \in DOMAIN data |-> [data[i] EXCEPT !.density = dens[i]]]

\* the aggregated points of both levels paired with the number of input
\* points merged into each
MergedDensities ==
  {<<LodCells(lodInput, MediumCell)[LodOrder(lodInput, MediumCell)[i]].count,
     aggregator.levels.medium.points[i].density>> : i \in DOMAIN aggregator.levels.medium.points}
  \cup
  {<<LodCells(lodInput, CoarseCell)[LodOrder(lodInput, CoarseCell)[i]].count,
     aggregator.levels.coarse.points[i].density>> : i \in DOMAIN aggregator.levels.coarse.points}

\* C19: point sets that differ only in their density weights give the same
\* level 1 and level 2 point sets; an aggregated density lies in [0,1],
\* depends only on the number of points merged and does not decrease with it.
C19_DensityFromCardinality ==
  aggregator.built =>
    /\ \A dens \in [DOMAIN lodInput -> {0, 500, DensityOne}] :
         /\ AggregateLevel(WithDensities(lodInput, dens), aggregator.cellSizes.medium, 1) = aggregator.levels.medium
         /\ AggregateLevel(WithDensities(lodInput, dens), aggregator.cellSizes.coarse, 2) = aggregator.levels.coarse
    /\ \A m \in MergedDensities : 0 <= m[2] /\ m[2] <= DensityOne
    /\ \A m1, m2 \in MergedDensities :
         /\ m1[1] = m2[1] => m1[2] = m2[2]
         /\ m1[1] <= m2[1] => m1[2] <= m2[2]

C19_Witness ==
  /\ aggregator.built
  /\ Count(lodInput) = 2
  /\ lodInput[0].density = DensityOne /\ lodInput[1].density = DensityOne
  /\ aggregator.levels.medium.count = 2
  /\ aggregator.levels.coarse.count = 1
  /\ aggregator.levels.coarse.points[0].density > aggregator.levels.medium.points[0].density
  /\ aggregator.levels.coarse.points[0].density < DensityOne

\* the level number the thresholds 0.5 and 2.0 give a distance
ThresholdLevel(distance) ==
  IF 2 * distance < WorldUnit THEN 0 ELSE IF distance < 2 * WorldUnit THEN 1 ELSE 2

\* C20: after process getLevelForDistance(d) returns level 0 for d < 0.5,
\* level 1 for 0.5 <= d < 2.0 and level 2 otherwise, whatever was asked
\* before; the level number does not decrease as d grows.
C20_LevelByThreshold ==
  /\ (levelResult.asked /\ ~levelResult.isNull) => levelResult.lodLevel = ThresholdLevel(levelResult.distance)
  /\ aggregator.built =>
       /\ \A distance \in Distances :
            /\ GetLevelForDistance(aggregator, distance).lodLevel = ThresholdLevel(distance)
            /\ ThresholdLevel(distance) = 0 => GetLevelForDistance(aggregator, distance) = aggregator.levels.fine
            /\ ThresholdLevel(distance) = 1 => GetLevelForDistance(aggregator, distance) = aggregator.levels.medium
            /\ ThresholdLevel(distance) = 2 => GetLevelForDistance(aggregator, distance) = aggregator.levels.coarse
       /\ \A d1, d2 \in Distances :
            d1 <= d2 => GetLevelForDistance(aggregator, d1).lodLevel <= GetLevelForDistance(aggregator, d2).lodLevel

C20_Witness ==
  /\ aggregator.built
  /\ aggregator.levels.fine.count = 2
  /\ aggregator.levels.medium.count = 2
  /\ aggregator.levels.coarse.count = 1
  /\ levelResult.asked
  /\ ~levelResult.isNull
  /\ 2 * levelResult.distance = WorldUnit
  /\ levelResult.lodLevel = 1
  /\ levelResult.count = 2

\* every point of the set is at one position
Coincident(data) == \A i, j \in DOMAIN data : data[i].pos = data[j].pos

\* C21: after every build each grid dimension is at least 1, totalCells is the
\* product of the dimensions and at least 1, no quotient has a zero divisor
\* (the cell size and the count of every stored cell are positive), and
\* coincident points give a grid of one cell per axis and land in one cell.
C21_DegenerateGrid ==
  gridBuilds >= 1 =>
    /\ \A a \in 1..3 : grid.gridDims[a] >= 1
    /\ grid.totalCells = grid.gridDims[1] * grid.gridDims[2] * grid.gridDims[3]
    /\ grid.totalCells >= 1
    /\ grid.cellSize > 0
    /\ \A k \in DOMAIN grid.cells : grid.cells[k].count > 0
    /\ (Count(gridInput) >= 1 /\ Coincident(gridInput)) =>
         /\ grid.gridDims = <<1, 1, 1>>
         /\ \E k \in DOMAIN grid.cells :
              /\ \A i \in DOMAIN gridInput : CellKey(grid.gridMin, grid.gridDims, gridInput[i]) = k
              /\ grid.cells[k].count >= Count(gridInput)

C21_Witness ==
  /\ gridBuilds = 2
  /\ Count(gridInput) = 2
  /\ Coincident(gridInput)
  /\ gridInput[0].pos = <<12, 0, 0>>
  /\ grid.gridMin = <<12 - Pad, -Pad, -Pad>>
  /\ grid.gridDims = <<1, 1, 1>>
  /\ grid.totalCells = 1
  /\ grid.cells[<<0, 0, 0>>].count >= 2

\* C22: while a pinch is held over consecutive frames, any two consecutive
\* querySphere calls of the inspect handler are at least queryInterval
\* (100 ms) of clock time apart, however many frames lie between them.
C22_QueryRateLimited ==
  inspectCalls.calls >= 2 => inspectCalls.gap >= QueryInterval

\* C30: after each frame's recognizer update the inspect handler is active
\* only if the recognizer is in the INSPECT state, also when a reset or a time
\* scrub pre-empts a pinch that is still held.
C30_ActiveOnlyInInspect ==
  inspect.isActive => recognizer.state = GestureState.INSPECT

\* C23: the data-load sequence enforces the instance cap: for an input
\* above the cap the level it loads fits the cap, and when even the coarse
\* level exceeds the cap it reports an error and loads nothing.
C23_CapEnforced ==
  (app.dataLoaded /\ app.inputCount > MaxSafeInstances) =>
    /\ ~app.error => app.activeCount <= MaxSafeInstances
    /\ aggregator.levels.coarse.count > MaxSafeInstances => (app.error /\ ~renderLoad.called)

\* the populated cells whose centroid lies within the radius, found by a scan
\* of every stored cell
ScanCells(g, center, radius) ==
  {key \in DOMAIN g.cells : g.cells[key].count # 0 /\ WithinRadius(g.cells[key], center, radius)}

ScanResult(g, center, radius) ==
  LET scan == ScanCells(g, center, radius)
  IN  [totalCount |-> SumOver([k \in scan |-> g.cells[k].count], scan),
       speciesHistogram |-> [s \in SpeciesBins |-> SumOver([k \in scan |-> g.cells[k].speciesHistogram[s]], scan)],
       timeHistogram |-> [t \in TimeBins |-> SumOver([k \in scan |-> g.cells[k].timeHistogram[t]], scan)],
       cellsQueried |-> Cardinality(scan)]

\* C24: on a built grid querySphere(center, r) aggregates exactly the
\* populated cells whose centroid is within r of the centre: totalCount, both
\* histograms and cellsQueried equal those of a scan of all populated cells,
\* so the clamped index range leaves no such cell out.
C24_QueryEqualsScan ==
  [][\A center \in Centers, radius \in Radii :
       (grid.built /\ QuerySphereCall(center, radius)) =>
         /\ sphereResult'.result.totalCount = ScanResult(grid, center, radius).totalCount
         /\ sphereResult'.result.speciesHistogram = ScanResult(grid, center, radius).speciesHistogram
         /\ sphereResult'.result.timeHistogram = ScanResult(grid, center, radius).timeHistogram
         /\ sphereResult'.result.cellsQueried = ScanResult(grid, center, radius).cellsQueried]_vars

\* a query whose index range is clamped at both ends and takes in both cells
C24_Witness ==
  /\ grid.built
  /\ grid.gridDims = <<2, 1, 1>>
  /\ grid.populatedCells = 2
  /\ sphereResult.asked
  /\ sphereResult.center = <<12, 0, 0>>
  /\ sphereResult.radius = WholeRadius
  /\ sphereResult.result.cellsQueried = 2
  /\ sphereResult.result.totalCount = 2

\* C25: at every level each point with a time in [0, 1], the time 1 itself
\* included, gets one of exactly 30 time buckets 0..29; there is no 31st
\* bucket value.
C25_ThirtyTimeBuckets ==
  aggregator.built =>
    \A i \in DOMAIN lodInput : \A cellSize \in {aggregator.cellSizes.medium, aggregator.cellSizes.coarse} :
      (lodInput[i].time >= 0 /\ lodInput[i].time <= TimeScale) =>
        LodKey(lodInput[i], cellSize)[4] \in 0..(LodTimeBuckets - 1)

\* C26: getOverlappingChunks(tMin, tMax) returns an ascending list of
\* consecutive chunk ids within 0..chunkCount-1 that contains the chunk of
\* every indexed point whose time lies in [tMin, tMax], the points at time 1
\* (which build places in the last chunk) included; the list is empty when
\* tMin > tMax.
C26_OverlappingChunksCover ==
  (chunksResult.asked /\ chunker.hasIndices) =>
    LET ids == chunksResult.result
    IN  /\ \A j \in DOMAIN ids : ids[j] \in 0..(chunker.chunkCount - 1)
        /\ \A j \in DOMAIN ids : (j + 1) \in DOMAIN ids => ids[j + 1] = ids[j] + 1
        /\ \A i \in DOMAIN chunker.data :
             (chunksResult.minTime <= chunker.data[i].time /\ chunker.data[i].time <= chunksResult.maxTime) =>
               \E j \in DOMAIN ids : ids[j] = TargetChunk(chunker.data[i].time, chunker.chunkCount)
        /\ chunksResult.minTime > chunksResult.maxTime => ids = <<>>

HistogramSum(h) == SumOver(h, DOMAIN h)

\* the points of a point set at time exactly 1
AtTimeOne(data) == Cardinality({i \in DOMAIN data : data[i].time = TimeScale})

\* C27: for point sets with species ids in 0..7 and times in [0, 1], the
\* species histogram and the time histogram of every stored cell and of every
\* querySphere result sum to the count; a point at time exactly 1 is counted
\* in the last of the 10 time bins.
C27_HistogramsSumToCount ==
  /\ \A k \in DOMAIN grid.cells :
       /\ HistogramSum(grid.cells[k].speciesHistogram) = grid.cells[k].count
       /\ HistogramSum(grid.cells[k].timeHistogram) = grid.cells[k].count
  /\ sphereResult.asked =>
       /\ HistogramSum(sphereResult.result.speciesHistogram) = sphereResult.result.totalCount
       /\ HistogramSum(sphereResult.result.timeHistogram) = sphereResult.result.totalCount
       /\ DOMAIN sphereResult.result.timeHistogram = 0..9
  /\ grid.built =>
       SumOver([k \in DOMAIN grid.cells |-> grid.cells[k].timeHistogram[9]], DOMAIN grid.cells) = AtTimeOne(gridInput)
  /\ (sphereResult.asked /\ grid.built /\ sphereResult.result.totalCount = Count(gridInput)) =>
       sphereResult.result.timeHistogram[9] = AtTimeOne(gridInput)

\* a query over two points, one of them at time 1, which the last bin counts
C27_Witness ==
  /\ grid.built
  /\ Count(gridInput) = 2
  /\ AtTimeOne(gridInput) = 1
  /\ sphereResult.asked
  /\ sphereResult.result.totalCount = 2
  /\ sphereResult.result.timeHistogram[9] = 1
  /\ sphereResult.result.timeHistogram[0] = 1
  /\ HistogramSum(sphereResult.result.speciesHistogram) = 2

\* C28: for a built grid and a fixed centre, totalCount and cellsQueried of
\* querySphere do not decrease when the radius grows; totalCount never
\* exceeds the grid's totalPoints and cellsQueried never exceeds
\* populatedCells.
C28_MonotoneInRadius ==
  [][\A center \in Centers, radius \in Radii :
       (grid.built /\ QuerySphereCall(center, radius)) =>
         /\ \A wider \in Radii :
              radius <= wider =>
                /\ sphereResult'.result.totalCount <= QuerySphere(grid, center, wider).totalCount
                /\ sphereResult'.result.cellsQueried <= QuerySphere(grid, center, wider).cellsQueried
         /\ sphereResult'.result.totalCount <= grid.totalPoints
         /\ sphereResult'.result.cellsQueried <= grid.populatedCells]_vars

\* a query of radius 0.2 around one of two points of two cells: it takes in
\* one cell, and the radius that covers the grid takes in both
C28_Witness ==
  /\ grid.built
  /\ grid.totalPoints = 2
  /\ grid.populatedCells = 2
  /\ sphereResult.asked
  /\ sphereResult.center = <<0, 0, 0>>
  /\ sphereResult.radius = 4
  /\ sphereResult.result.totalCount = 1
  /\ sphereResult.result.cellsQueried = 1
  /\ QuerySphere(grid, <<0, 0, 0>>, WholeRadius).totalCount = 2

\* C29: when the coarse cell size is an integer multiple of the medium cell
\* size, points that share a medium key share a coarse key, so after process
\* the coarse level never has more points than the medium level.
C29_CoarseNoLargerThanMedium ==
  (aggregator.built /\ aggregator.cellSizes.coarse % aggregator.cellSizes.medium = 0) =>
    /\ \A i, j \in DOMAIN lodInput :
         LodKey(lodInput[i], aggregator.cellSizes.medium) = LodKey(lodInput[j], aggregator.cellSizes.medium) =>
           LodKey(lodInput[i], aggregator.cellSizes.coarse) = LodKey(lodInput[j], aggregator.cellSizes.coarse)
    /\ aggregator.levels.coarse.count <= aggregator.levels.medium.count
    /\ aggregator.levels.medium.count <= aggregator.levels.fine.count

\* medium cells of size 2 and coarse cells of size 4: two points of two
\* medium cells that one coarse cell holds
C29_Witness ==
  /\ aggregator.built
  /\ aggregator.cellSizes = [medium |-> 2, coarse |-> 4]
  /\ Count(lodInput) = 2
  /\ lodInput[0].pos = <<1, 0, 0>>
  /\ lodInput[1].pos = <<2, 0, 0>>
  /\ aggregator.levels.medium.count = 2
  /\ aggregator.levels.coarse.count = 1

====
